---- MODULE Spec2Model ----
(***************************************************************************)
(* The dashboard component App of the uttarakhand-dashboard repository.    *)
(*                                                                         *)
(* Two revisions of the component with demographic selectors are in the   *)
(* sources: src/src/App.tsx (Uttarakhand) and src/unnamed/part_001 (Uttar  *)
(* Pradesh).  The variable rev says which one is running; everything the  *)
(* two revisions share is modelled once.                                   *)
(*                                                                         *)
(* Representation of JavaScript values                                     *)
(*   null / undefined   the empty sequence <<>>; a present value v is <<v>>*)
(*   literacy           fixed point, in tenths of a percent (toFixed(1))   *)
(*   income, population integers                                           *)
(*   kpis.average       fixed point, in hundredths (toFixed(2))            *)
(*   Infinity, NaN      integers outside the range of every metric value   *)
(*                                                                         *)
(* demographicKey, kpis, pieData and barData are the values of the useMemo *)
(* hooks; geoJSON is the mounted <GeoJSON> element, null when the          *)
(* dashboard is not shown: its key and the fill colour of every feature.   *)
(***************************************************************************)
EXTENDS Integers, Sequences, FiniteSets, TLC

VARIABLES rev, pc, polygonData, metricData, error,
          selectedMetric, selectedGender, selectedAge,
          selectedCaste, selectedSEC,
          demographicKey, kpis, pieData, barData, geoJSON

vars == <<rev, pc, polygonData, metricData, error,
          selectedMetric, selectedGender, selectedAge,
          selectedCaste, selectedSEC,
          demographicKey, kpis, pieData, barData, geoJSON>>

(***************************************************************************)
(* Bounds of the model.                                                    *)
(***************************************************************************)
\* Longest feature list a fetched GeoJSON document carries.
MaxFeatures == 2
\* Math.random is one of the streams 0..MaxSeed (see MathRandom).
MaxSeed == 1

(***************************************************************************)
(* JavaScript values.                                                      *)
(***************************************************************************)
null == <<>>
undefined == <<>>
Infinity == 2000000000
NaN == 0 - 2000000001

Some(v) == <<v>>

Revisions == {"App", "part_001"}

(***************************************************************************)
(* Closed enumerations: the type declarations and the display-name tables  *)
(* whose keys become the <option>s of the selects.                         *)
(***************************************************************************)
Metrics == {"literacy", "income", "population"}
GenderKey == {"all", "male", "female", "other"}
AgeKey == {"all", "age0_18", "age19_35", "age36_50", "age51_plus"}
CasteKey == {"all", "obc", "sc", "st", "oc"}
SECKey == {"all", "bpl", "low", "middle", "high", "affluent"}

genderDisplayNames == GenderKey
ageDisplayNames == AgeKey
secDisplayNames == CasteKey
incomeGroupDisplayNames == SECKey

(***************************************************************************)
(* The keys the generator fills for every area, in the order of the array  *)
(* literal.                                                                *)
(***************************************************************************)
demographicKeys ==
  << "all_all", "male_all", "female_all", "other_all",
     "all_age0_18", "all_age19_35", "all_age36_50", "all_age51_plus",
     "male_age0_18", "male_age19_35", "male_age36_50", "male_age51_plus",
     "female_age0_18", "female_age19_35", "female_age36_50",
     "female_age51_plus",
     "other_age0_18", "other_age19_35", "other_age36_50", "other_age51_plus" >>

Range(s) == {s[i] : i \in 1..Len(s)}

(***************************************************************************)
(* Math.random.  A draw is a rational n / RandomDenominator in [0, 1); the *)
(* numerators the model draws are RandomSamples, chosen so that the values *)
(* generated from them hit the ends of the generator's ranges and the      *)
(* bracket boundaries.  A stream is a rotation of the samples: its j-th    *)
(* draw (j from 0) is sample (seed + j) modulo the number of samples.      *)
(***************************************************************************)
RandomDenominator == 1592
RandomSamples == <<0, 199, 455, 152, 1591, 1194, 1365, 792>>

MathRandom(seed, j) == RandomSamples[((seed + j) % Len(RandomSamples)) + 1]

\* Math.floor(getRandom(min, max)) for a draw n / RandomDenominator.
FloorRandom(n, min, max) == min + ((n * (max - min)) \div RandomDenominator)

\* round(a / b), halves up, as Number.prototype.toFixed rounds.  The model
\* rounds the exact quotient; the code rounds the nearest double.
RoundDiv(a, b) == (2 * a + b) \div (2 * b)

\* Number(getRandom(min, max).toFixed(1)), in tenths.
FixedRandom(n, min, max) ==
  10 * min + RoundDiv(10 * n * (max - min), RandomDenominator)

\* GenerateValues drawing literacy from 60 to 100.
GenerateValuesLiteracyTo100(seed, a, k) ==
  LET j == (a * Len(demographicKeys) + k) * 3
  IN  [ literacy   |-> FixedRandom(MathRandom(seed, j), 60, 100),
        income     |-> FloorRandom(MathRandom(seed, j + 1), 20000, 100000),
        population |-> FloorRandom(MathRandom(seed, j + 2), 5000, 1000000) ]

\* The MetricValues of the key at position k (from 0) of the area at
\* position a (from 0): three draws, in the order of the object literal.
GenerateValues(seed, a, k) ==
  LET j == (a * Len(demographicKeys) + k) * 3
  IN  [ literacy   |-> FixedRandom(MathRandom(seed, j), 60, 95),
        income     |-> FloorRandom(MathRandom(seed, j + 1), 20000, 100000),
        population |-> FloorRandom(MathRandom(seed, j + 2), 5000, 1000000) ]

KeyIndex(key) == CHOOSE k \in 1..Len(demographicKeys) : demographicKeys[k] = key

\* areas.forEach: dataMap[areaId] = areaData; a later area with the same id
\* overwrites the earlier one.
LastIndexOf(areas, id) ==
  CHOOSE i \in 1..Len(areas) :
    areas[i] = id /\ \A j \in (i + 1)..Len(areas) : areas[j] # id

GenerateMetricData(areas, seed) ==
  [ id \in Range(areas) |->
      [ key \in Range(demographicKeys) |->
          GenerateValues(seed, LastIndexOf(areas, id) - 1, KeyIndex(key) - 1) ] ]

(***************************************************************************)
(* The fetched document: a list of up to MaxFeatures distinct features of  *)
(* FeaturePool, in any order.  coordCount is the number the filter         *)
(* computes from the geometry.                                             *)
(***************************************************************************)
FeaturePool ==
  << [id |-> "r1", name |-> "Dehradun", type |-> "Polygon", coordCount |-> 120],
     [id |-> "r2", name |-> "", type |-> "MultiPolygon", coordCount |-> 300],
     [id |-> "r1", name |-> "Haridwar", type |-> "Polygon", coordCount |-> 80],
     [id |-> "r4", name |-> "Marker", type |-> "Point", coordCount |-> 0] >>

Documents ==
  LET picks == UNION { [1..n -> 1..Len(FeaturePool)] : n \in 0..MaxFeatures }
      distinct(p) == \A i, j \in 1..Len(p) : p[i] = p[j] => i = j
  IN  { [i \in 1..Len(p) |-> FeaturePool[p[i]]] : p \in {q \in picks : distinct(q)} }

\* The predicate of data.features.filter.
KeepFeature(f) ==
  IF f.type # "Polygon" /\ f.type # "MultiPolygon" THEN FALSE
  ELSE IF rev = "App" THEN f.coordCount < 2550
       ELSE f.coordCount # 0

RECURSIVE Filter(_)
Filter(fs) ==
  IF fs = <<>> THEN <<>>
  ELSE IF KeepFeature(Head(fs)) THEN <<Head(fs)>> \o Filter(Tail(fs))
       ELSE Filter(Tail(fs))

AreaIds(features) == [i \in 1..Len(features) |-> features[i].id]

(***************************************************************************)
(* Demographic key: the template literal of the useMemo.  Both revisions   *)
(* compose it from selectedGender and selectedAge only.                    *)
(***************************************************************************)
demographicKeyOf(gender, age) == gender \o "_" \o age

(***************************************************************************)
(* metricData[id]?.[key]?.[metric]                                         *)
(***************************************************************************)
Lookup(md, id, key, metric) ==
  IF id \in DOMAIN md /\ key \in DOMAIN md[id]
  THEN Some(md[id][key][metric])
  ELSE undefined

(***************************************************************************)
(* getColor.  The thresholds are those of the source with literacy in      *)
(* tenths; the literacy colours differ between the revisions.              *)
(***************************************************************************)
getColor(metric, value) ==
  IF metric = "literacy" THEN
    IF rev = "App" THEN
      IF value >= 900 THEN "#1E3A8A"
      ELSE IF value >= 800 THEN "#3B82F6"
      ELSE IF value >= 700 THEN "#93C5FD"
      ELSE "#DBEAFE"
    ELSE
      IF value >= 900 THEN "#9B72CC"
      ELSE IF value >= 800 THEN "#BC9AE6"
      ELSE IF value >= 700 THEN "#DCC6F6"
      ELSE "#F3E8FF"
  ELSE IF metric = "income" THEN
    IF value >= 80000 THEN "#14532D"
    ELSE IF value >= 50000 THEN "#16A34A"
    ELSE IF value >= 30000 THEN "#4ADE80"
    ELSE "#BBF7D0"
  ELSE IF metric = "population" THEN
    IF value >= 500000 THEN "#7C2D12"
    ELSE IF value >= 200000 THEN "#F97316"
    ELSE IF value >= 100000 THEN "#FDBA74"
    ELSE "#FEE2E2"
  ELSE "#E5E7EB"

(***************************************************************************)
(* brackets: the bracket table of every metric (literacy in tenths).  The  *)
(* tables of the two revisions differ in two literacy colours.             *)
(***************************************************************************)
incomeBrackets ==
  << [label |-> "<30,000", min |-> 0, max |-> 30000, color |-> "#BBF7D0"],
     [label |-> "30,000-50,000", min |-> 30000, max |-> 50000,
      color |-> "#4ADE80"],
     [label |-> "50,000-80,000", min |-> 50000, max |-> 80000,
      color |-> "#16A34A"],
     [label |-> ">=80,000", min |-> 80000, max |-> Infinity,
      color |-> "#14532D"] >>

populationBrackets ==
  << [label |-> "<100,000", min |-> 0, max |-> 100000, color |-> "#FEE2E2"],
     [label |-> "100,000-200,000", min |-> 100000, max |-> 200000,
      color |-> "#FDBA74"],
     [label |-> "200,000-500,000", min |-> 200000, max |-> 500000,
      color |-> "#F97316"],
     [label |-> ">=500,000", min |-> 500000, max |-> Infinity,
      color |-> "#7C2D12"] >>

\* src/src/App.tsx
bracketsApp ==
  [ literacy |->
      << [label |-> "<70%", min |-> 0, max |-> 700, color |-> "#DBEAFE"],
         [label |-> "70-80%", min |-> 700, max |-> 800, color |-> "#93C5FD"],
         [label |-> "80-90%", min |-> 800, max |-> 900, color |-> "#3B82F6"],
         [label |-> ">=90%", min |-> 900, max |-> 1000, color |-> "#1E3A8A"] >>,
    income |-> incomeBrackets,
    population |-> populationBrackets ]

\* src/unnamed/part_001
bracketsPart001 ==
  [ literacy |->
      << [label |-> "<70%", min |-> 0, max |-> 700, color |-> "#E6E6FA"],
         [label |-> "70-80%", min |-> 700, max |-> 800, color |-> "#BFA2DB"],
         [label |-> "80-90%", min |-> 800, max |-> 900, color |-> "#3B82F6"],
         [label |-> ">=90%", min |-> 900, max |-> 1000, color |-> "#1E3A8A"] >>,
    income |-> incomeBrackets,
    population |-> populationBrackets ]

brackets == IF rev = "App" THEN bracketsApp ELSE bracketsPart001

(***************************************************************************)
(* kpis.                                                                   *)
(***************************************************************************)
RECURSIVE SumOver(_, _)
SumOver(f, S) ==
  IF S = {} THEN 0
  ELSE LET x == CHOOSE y \in S : TRUE IN f[x] + SumOver(f, S \ {x})

\* Math.min(...values) and Math.max(...values); Infinity and -Infinity for
\* an empty list.
MathMin(f) ==
  IF DOMAIN f = {} THEN Infinity
  ELSE CHOOSE v \in {f[x] : x \in DOMAIN f} : \A x \in DOMAIN f : v <= f[x]

MathMax(f) ==
  IF DOMAIN f = {} THEN 0 - Infinity
  ELSE CHOOSE v \in {f[x] : x \in DOMAIN f} : \A x \in DOMAIN f : v >= f[x]

\* Hundredths per unit of a metric value.
AverageScale(metric) == IF metric = "literacy" THEN 10 ELSE 100

\* (area) => area[demographicKey][selectedMetric] throws a TypeError when
\* area[demographicKey] is undefined.
kpisThrows(md, metric, key) == \E id \in DOMAIN md : key \notin DOMAIN md[id]

\* kpisOf with the Math.floor applied whatever the metric.
kpisOfFloorAlways(md, metric, key) ==
  LET values == [id \in DOMAIN md |-> md[id][key][metric]]
      n == Cardinality(DOMAIN md)
      sum == SumOver(values, DOMAIN md)
      fixed == IF n = 0 THEN NaN
               ELSE RoundDiv(sum * AverageScale(metric), n)
      average == IF n # 0 THEN (fixed \div 100) * 100 ELSE fixed
  IN  [average |-> average, min |-> MathMin(values), max |-> MathMax(values)]

\* kpisOf without the Math.floor of the population average.
kpisOfNoFloor(md, metric, key) ==
  LET values == [id \in DOMAIN md |-> md[id][key][metric]]
      n == Cardinality(DOMAIN md)
      sum == SumOver(values, DOMAIN md)
      fixed == IF n = 0 THEN NaN
               ELSE RoundDiv(sum * AverageScale(metric), n)
  IN  [average |-> fixed, min |-> MathMin(values), max |-> MathMax(values)]

\* The value of the useMemo callback when metricData is md and the callback
\* does not throw.
kpisOf(md, metric, key) ==
  LET values == [id \in DOMAIN md |-> md[id][key][metric]]
      n == Cardinality(DOMAIN md)
      sum == SumOver(values, DOMAIN md)
      fixed == IF n = 0 THEN NaN
               ELSE RoundDiv(sum * AverageScale(metric), n)
      average == IF n # 0 /\ metric = "population"
                 THEN (fixed \div 100) * 100 ELSE fixed
  IN  [average |-> average, min |-> MathMin(values), max |-> MathMax(values)]

(***************************************************************************)
(* pieData.                                                                *)
(***************************************************************************)
\* InBracket with the interval closed at the wrong end: (min, max].
InBracketUpperClosed(b, value) ==
  value > b.min /\ (IF b.max = Infinity THEN TRUE ELSE value <= b.max)

\* The predicate of currentBrackets.find.
InBracket(b, value) ==
  value >= b.min /\ (IF b.max = Infinity THEN TRUE ELSE value < b.max)

\* currentBrackets.indexOf(currentBrackets.find(...)), from 1; 0 when find
\* returns undefined.
FindBracket(table, value) ==
  IF \E i \in 1..Len(table) : InBracket(table[i], value)
  THEN CHOOSE i \in 1..Len(table) :
         /\ InBracket(table[i], value)
         /\ \A j \in 1..(i - 1) : ~InBracket(table[j], value)
  ELSE 0

\* pieDataOf returning only the brackets that counted an area.
pieDataOfNonEmpty(features, md, metric, key) ==
  LET currentBrackets == brackets[metric]
      index == [ j \in 1..Len(features) |->
                   LET value == Lookup(md, features[j].id, key, metric)
                   IN  IF value # undefined
                       THEN FindBracket(currentBrackets, value[1])
                       ELSE 0 ]
      counts == [ i \in 1..Len(currentBrackets) |->
                    [ name  |-> currentBrackets[i].label,
                      value |-> Cardinality({j \in 1..Len(features) : index[j] = i}),
                      color |-> currentBrackets[i].color ] ]
      positive(c) == c.value > 0
  IN  SelectSeq(counts, positive)

pieDataOf(features, md, metric, key) ==
  LET currentBrackets == brackets[metric]
      \* The index of the bracket whose count feature j increments; 0 when
      \* the value is undefined or find returns undefined.
      index == [ j \in 1..Len(features) |->
                   LET value == Lookup(md, features[j].id, key, metric)
                   IN  IF value # undefined
                       THEN FindBracket(currentBrackets, value[1])
                       ELSE 0 ]
  IN  [ i \in 1..Len(currentBrackets) |->
          [ name  |-> currentBrackets[i].label,
            value |-> Cardinality({j \in 1..Len(features) : index[j] = i}),
            color |-> currentBrackets[i].color ] ]

(***************************************************************************)
(* barData.                                                                *)
(***************************************************************************)
\* Array.prototype.sort with (a, b) => b.value - a.value: descending and
\* stable.
RECURSIVE SortDescendingTiesReversed(_)
RECURSIVE SortAscending(_)
RECURSIVE SortDescending(_)
\* A descending sort that is not stable: an entry goes before the entries
\* of equal value that preceded it.
SortDescendingTiesReversed(s) ==
  IF s = <<>> THEN <<>>
  ELSE LET n == Len(s)
           x == s[n]
           sorted == SortDescendingTiesReversed(SubSeq(s, 1, n - 1))
           k == Cardinality({i \in 1..Len(sorted) : sorted[i].value > x.value})
       IN  SubSeq(sorted, 1, k) \o <<x>> \o SubSeq(sorted, k + 1, Len(sorted))

\* The sort with the comparator a.value - b.value: ascending.
SortAscending(s) ==
  IF s = <<>> THEN <<>>
  ELSE LET n == Len(s)
           x == s[n]
           sorted == SortAscending(SubSeq(s, 1, n - 1))
           k == Cardinality({i \in 1..Len(sorted) : sorted[i].value <= x.value})
       IN  SubSeq(sorted, 1, k) \o <<x>> \o SubSeq(sorted, k + 1, Len(sorted))

SortDescending(s) ==
  IF s = <<>> THEN <<>>
  ELSE LET n == Len(s)
           x == s[n]
           sorted == SortDescending(SubSeq(s, 1, n - 1))
           k == Cardinality({i \in 1..Len(sorted) : sorted[i].value >= x.value})
       IN  SubSeq(sorted, 1, k) \o <<x>> \o SubSeq(sorted, k + 1, Len(sorted))

RECURSIVE MapDefinedZeroFill(_, _, _, _)
RECURSIVE MapDefined(_, _, _, _)
\* MapDefined without the filter: an area without a value is kept, with 0.
MapDefinedZeroFill(features, md, metric, key) ==
  IF features = <<>> THEN <<>>
  ELSE LET feature == Head(features)
           name == IF feature.name = "" THEN "Unknown Area" ELSE feature.name
           value == Lookup(md, feature.id, key, metric)
           rest == MapDefinedZeroFill(Tail(features), md, metric, key)
       IN  <<[name |-> name,
              value |-> IF value # undefined THEN value[1] ELSE 0]>> \o rest

\* features.map(...).filter((item) => item !== null): the entries of the
\* areas whose value is not undefined, in feature order.
MapDefined(features, md, metric, key) ==
  IF features = <<>> THEN <<>>
  ELSE LET feature == Head(features)
           name == IF feature.name = "" THEN "Unknown Area" ELSE feature.name
           value == Lookup(md, feature.id, key, metric)
           rest == MapDefined(Tail(features), md, metric, key)
       IN  IF value # undefined
           THEN <<[name |-> name, value |-> value[1]]>> \o rest
           ELSE rest

barDataOf(features, md, metric, key) ==
  SortDescending(MapDefined(features, md, metric, key))

(***************************************************************************)
(* What the component returns: the error view, the loading view or the     *)
(* dashboard.  A render that threw leaves no view at all.                  *)
(***************************************************************************)
\* View without the loading guard of line 306.
ViewNoLoadingGuard ==
  IF pc = "crashed" THEN "none"
  ELSE IF error # null THEN "error"
  ELSE "dashboard"

\* View without the error guard of line 305.
ViewNoErrorGuard ==
  IF pc = "crashed" THEN "none"
  ELSE IF polygonData = null \/ metricData = null THEN "loading"
  ELSE "dashboard"

View ==
  IF pc = "crashed" THEN "none"
  ELSE IF error # null THEN "error"
  ELSE IF polygonData = null \/ metricData = null THEN "loading"
  ELSE "dashboard"

(***************************************************************************)
(* The <GeoJSON> element: its key, and the fillColor its style callback    *)
(* gives every feature, a missing or zero value being coloured as 0.       *)
(***************************************************************************)
geoJSONKey(metric, key) == metric \o "-" \o key

styleFillColor(feature, md, metric, key) ==
  LET found == Lookup(md, feature.id, key, metric)
      value == IF found = undefined THEN 0 ELSE found[1]
  IN  getColor(metric, value)

geoJSONOf(features, md, metric, key) ==
  [ key |-> geoJSONKey(metric, key),
    fillColor |-> [ j \in 1..Len(features) |->
                      styleFillColor(features[j], md, metric, key) ] ]

(***************************************************************************)
(* The dependency lists of the useMemo hooks: a hook recomputes in a       *)
(* render when one of its dependencies changed since the last one.         *)
(***************************************************************************)
\* demographicKey with the gender dependency left out of the list.
demographicKeyDepsNoGender ==
  \/ selectedAge' # selectedAge
  \/ (rev = "part_001" /\ selectedCaste' # selectedCaste)
  \/ (rev = "part_001" /\ selectedSEC' # selectedSEC)

demographicKeyDeps ==
  \/ selectedGender' # selectedGender
  \/ selectedAge' # selectedAge
  \/ (rev = "part_001" /\ selectedCaste' # selectedCaste)
  \/ (rev = "part_001" /\ selectedSEC' # selectedSEC)

kpisDeps ==
  \/ metricData' # metricData
  \/ selectedMetric' # selectedMetric
  \/ demographicKey' # demographicKey

\* pieData and barData with selectedMetric left out of the list.
chartDepsNoMetric ==
  \/ metricData' # metricData
  \/ polygonData' # polygonData
  \/ demographicKey' # demographicKey

\* pieData and barData have the same list.
chartDeps ==
  \/ metricData' # metricData
  \/ polygonData' # polygonData
  \/ selectedMetric' # selectedMetric
  \/ demographicKey' # demographicKey

(***************************************************************************)
(* One render of App after a state change: the four useMemo hooks in the   *)
(* order of the function body, then the returned view.  A hook recomputes  *)
(* when one of its dependencies changed and keeps its value otherwise.     *)
(* The callback of kpis throws when an area has no entry at the key; the   *)
(* render is then abandoned (pc = "crashed") with demographicKey being the *)
(* key it threw at.  The <GeoJSON> element is part of the dashboard view   *)
(* only; React mounts it anew, and its style callback runs for every       *)
(* feature, when the dashboard appears or the element's key changes.       *)
(***************************************************************************)
Render(nextPc) ==
  /\ demographicKey' =
       IF demographicKeyDeps
       THEN demographicKeyOf(selectedGender', selectedAge')
       ELSE demographicKey
  /\ IF /\ kpisDeps
        /\ metricData' # null
        /\ kpisThrows(metricData'[1], selectedMetric', demographicKey')
     THEN /\ pc' = "crashed"
          /\ UNCHANGED <<kpis, pieData, barData, geoJSON>>
     ELSE /\ pc' = nextPc
          /\ kpis' =
               IF ~kpisDeps THEN kpis
               ELSE IF metricData' = null THEN null
               ELSE Some(kpisOf(metricData'[1], selectedMetric',
                                demographicKey'))
          /\ pieData' =
               IF ~chartDeps THEN pieData
               ELSE IF metricData' = null \/ polygonData' = null THEN <<>>
               ELSE pieDataOf(polygonData'[1].features, metricData'[1],
                              selectedMetric', demographicKey')
          /\ barData' =
               IF ~chartDeps THEN barData
               ELSE IF metricData' = null \/ polygonData' = null THEN <<>>
               ELSE barDataOf(polygonData'[1].features, metricData'[1],
                              selectedMetric', demographicKey')
          /\ geoJSON' =
               IF error' # null \/ polygonData' = null \/ metricData' = null
               THEN null
               ELSE IF /\ geoJSON # null
                       /\ geoJSON[1].key =
                            geoJSONKey(selectedMetric', demographicKey')
               THEN geoJSON
               ELSE Some(geoJSONOf(polygonData'[1].features, metricData'[1],
                                   selectedMetric', demographicKey'))

(***************************************************************************)
(* The state after the first render: the useState initial values.          *)
(***************************************************************************)
Init ==
  /\ rev \in Revisions
  /\ pc = "fetching"
  /\ polygonData = null
  /\ metricData = null
  /\ error = null
  /\ selectedMetric = "literacy"
  /\ selectedGender = "all"
  /\ selectedAge = "all"
  /\ selectedCaste = "all"
  /\ selectedSEC = "all"
  /\ demographicKey = demographicKeyOf("all", "all")
  /\ kpis = null
  /\ pieData = <<>>
  /\ barData = <<>>
  /\ geoJSON = null

(***************************************************************************)
(* The load effect.                                                        *)
(***************************************************************************)
\* err.message of the rejections the chain can catch: the response was not
\* ok, the request failed, the body was not JSON.
ErrorMessages ==
  { "Failed to fetch GeoJSON", "Failed to fetch", "Unexpected end of JSON input" }

\* A rejection caught whenever no error is set yet, be it after
\* setMetricData.
FetchRejectedAtAnyTime(message) ==
  /\ pc # "crashed"
  /\ error = null
  /\ error' = Some(message)
  /\ UNCHANGED <<rev, polygonData, metricData, selectedMetric, selectedGender,
                 selectedAge, selectedCaste, selectedSEC>>
  /\ Render("settled")

\* .catch: setError(err.message).  The chain rejects when the request
\* fails, the response is not ok or the body is not JSON, all before the
\* second .then runs; that callback does not throw on a document of the
\* declared type GeoJSONData.
FetchRejected(message) ==
  /\ pc = "fetching"
  /\ error' = Some(message)
  /\ UNCHANGED <<rev, polygonData, metricData, selectedMetric, selectedGender,
                 selectedAge, selectedCaste, selectedSEC>>
  /\ Render("settled")

\* The second .then: filter, setPolygonData, generate, setMetricData, the
\* two state updates being rendered together (batched).
FetchResolved(data, seed) ==
  /\ pc = "fetching"
  /\ LET filtered == Filter(data)
     IN  /\ polygonData' = Some([features |-> filtered])
         /\ metricData' = Some(GenerateMetricData(AreaIds(filtered), seed))
  /\ UNCHANGED <<rev, error, selectedMetric, selectedGender, selectedAge,
                 selectedCaste, selectedSEC>>
  /\ Render("settled")

\* The same callback when state updates made outside an event handler are
\* rendered one by one: setPolygonData(filtered) is rendered before the
\* metric data is generated ...
ThenSetPolygonData(data) ==
  /\ pc = "fetching"
  /\ polygonData' = Some([features |-> Filter(data)])
  /\ UNCHANGED <<rev, metricData, error, selectedMetric, selectedGender,
                 selectedAge, selectedCaste, selectedSEC>>
  /\ Render("generating")

\* ... and setMetricData(dataMap) after it.
ThenSetMetricData(seed) ==
  /\ pc = "generating"
  /\ metricData' =
       Some(GenerateMetricData(AreaIds(polygonData[1].features), seed))
  /\ UNCHANGED <<rev, polygonData, error, selectedMetric, selectedGender,
                 selectedAge, selectedCaste, selectedSEC>>
  /\ Render("settled")

\* The metric select, were it to generate the metric data anew.
MetricSelectOnChangeRegenerating(value) ==
  /\ View = "dashboard"
  /\ selectedMetric' = value
  /\ \E seed \in 0..MaxSeed :
       metricData' =
         Some(GenerateMetricData(AreaIds(polygonData[1].features), seed))
  /\ UNCHANGED <<rev, polygonData, error, selectedGender, selectedAge,
                 selectedCaste, selectedSEC>>
  /\ Render(pc)

(***************************************************************************)
(* The selects of the dashboard.  A select whose handler is named below    *)
(* offers the keys of its display-name table.                              *)
(***************************************************************************)
\* metric-select
MetricSelectOnChange(value) ==
  /\ View = "dashboard"
  /\ selectedMetric' = value
  /\ UNCHANGED <<rev, polygonData, metricData, error, selectedGender,
                 selectedAge, selectedCaste, selectedSEC>>
  /\ Render(pc)

\* gender-select
GenderSelectOnChange(value) ==
  /\ View = "dashboard"
  /\ selectedGender' = value
  /\ UNCHANGED <<rev, polygonData, metricData, error, selectedMetric,
                 selectedAge, selectedCaste, selectedSEC>>
  /\ Render(pc)

\* age-select
AgeSelectOnChange(value) ==
  /\ View = "dashboard"
  /\ selectedAge' = value
  /\ UNCHANGED <<rev, polygonData, metricData, error, selectedMetric,
                 selectedGender, selectedCaste, selectedSEC>>
  /\ Render(pc)

\* caste-select: setSelectedGender in App.tsx, setSelectedCaste in part_001.
CasteSelectOnChange(value) ==
  /\ View = "dashboard"
  /\ IF rev = "App"
     THEN selectedGender' = value /\ UNCHANGED selectedCaste
     ELSE selectedCaste' = value /\ UNCHANGED selectedGender
  /\ UNCHANGED <<rev, polygonData, metricData, error, selectedMetric,
                 selectedAge, selectedSEC>>
  /\ Render(pc)

\* sec-select: setSelectedGender in App.tsx, setSelectedSEC in part_001.
SecSelectOnChange(value) ==
  /\ View = "dashboard"
  /\ IF rev = "App"
     THEN selectedGender' = value /\ UNCHANGED selectedSEC
     ELSE selectedSEC' = value /\ UNCHANGED selectedGender
  /\ UNCHANGED <<rev, polygonData, metricData, error, selectedMetric,
                 selectedAge, selectedCaste>>
  /\ Render(pc)

Next ==
  \/ \E message \in ErrorMessages : FetchRejected(message)
  \/ \E data \in Documents, seed \in 0..MaxSeed : FetchResolved(data, seed)
  \/ \E data \in Documents : ThenSetPolygonData(data)
  \/ \E seed \in 0..MaxSeed : ThenSetMetricData(seed)
  \/ \E value \in Metrics : MetricSelectOnChange(value)
  \/ \E value \in genderDisplayNames : GenderSelectOnChange(value)
  \/ \E value \in ageDisplayNames : AgeSelectOnChange(value)
  \/ \E value \in secDisplayNames : CasteSelectOnChange(value)
  \/ \E value \in incomeGroupDisplayNames : SecSelectOnChange(value)

Spec == Init /\ [][Next]_vars

(***************************************************************************)
(* The derivations as functions of their inputs.  SpecDerive starts from   *)
(* a catalog and a repository drawn from bounded sets, with the selection  *)
(* at the key female_age19_35, and applies the callbacks of kpis, pieData  *)
(* and barData to them.  The repository need not be the generator's: an    *)
(* area may have no table (metricData[id] undefined) or a table without    *)
(* the key, which is what the optional chaining of pieData and barData     *)
(* provides for, and a vector is any of TestVectors, which lie in the      *)
(* domain of MetricValues.                                                 *)
(***************************************************************************)
TestVectors ==
  { [literacy |-> 650, income |-> 30000, population |-> 100000],
    [literacy |-> 820, income |-> 29999, population |-> 99999],
    [literacy |-> 1000, income |-> 80000, population |-> 500000],
    [literacy |-> 0, income |-> 0, population |-> 0] }

\* What a repository holds for one area: nothing, a table without the key,
\* or a table with the key.
AreaTables ==
  { [key \in {"all_all"} |-> v] : v \in {CHOOSE w \in TestVectors : w.literacy = 0} }
  \cup { [key \in {"all_all", "female_age19_35"} |-> v] : v \in TestVectors }

Repositories ==
  UNION { [ids -> AreaTables] : ids \in SUBSET {"r1", "r2"} }

Catalogs == { Filter(data) : data \in Documents }

InitDerive ==
  /\ rev \in Revisions
  /\ pc = "derive"
  /\ \E features \in Catalogs : polygonData = Some([features |-> features])
  /\ \E md \in Repositories : metricData = Some(md)
  /\ error = null
  /\ selectedMetric \in Metrics
  /\ selectedGender = "female"
  /\ selectedAge = "age19_35"
  /\ selectedCaste = "all"
  /\ selectedSEC = "all"
  /\ demographicKey = demographicKeyOf(selectedGender, selectedAge)
  /\ kpis = null
  /\ pieData = <<>>
  /\ barData = <<>>
  /\ geoJSON = null

\* The callback of kpis.
Aggregate ==
  /\ pc = "derive"
  /\ kpis = null
  /\ IF kpisThrows(metricData[1], selectedMetric, demographicKey)
     THEN pc' = "crashed" /\ UNCHANGED kpis
     ELSE /\ kpis' = Some(kpisOf(metricData[1], selectedMetric, demographicKey))
          /\ UNCHANGED pc
  /\ UNCHANGED <<rev, polygonData, metricData, error, selectedMetric,
                 selectedGender, selectedAge, selectedCaste, selectedSEC,
                 demographicKey, pieData, barData, geoJSON>>

\* The callback of pieData.
Classify ==
  /\ pc = "derive"
  /\ pieData' = pieDataOf(polygonData[1].features, metricData[1],
                          selectedMetric, demographicKey)
  /\ UNCHANGED <<rev, pc, polygonData, metricData, error, selectedMetric,
                 selectedGender, selectedAge, selectedCaste, selectedSEC,
                 demographicKey, kpis, barData, geoJSON>>

\* The callback of barData.
Rank ==
  /\ pc = "derive"
  /\ barData' = barDataOf(polygonData[1].features, metricData[1],
                          selectedMetric, demographicKey)
  /\ UNCHANGED <<rev, pc, polygonData, metricData, error, selectedMetric,
                 selectedGender, selectedAge, selectedCaste, selectedSEC,
                 demographicKey, kpis, pieData, geoJSON>>

NextDerive == Aggregate \/ Classify \/ Rank

SpecDerive == InitDerive /\ [][NextDerive]_vars

(***************************************************************************)
(* The derivations on three areas whose literacy at the active key is 65,  *)
(* 82 and 91.  SpecScenario draws the order of the areas in the catalog,   *)
(* which area has which value, and the active key; every other key of the  *)
(* repository holds a vector of zeroes.  The callbacks are those of        *)
(* SpecDerive.                                                             *)
(***************************************************************************)
ScenarioAreas ==
  << [id |-> "r5", name |-> "Almora", type |-> "Polygon", coordCount |-> 100],
     [id |-> "r6", name |-> "Chamoli", type |-> "Polygon", coordCount |-> 140],
     [id |-> "r7", name |-> "Nainital", type |-> "MultiPolygon", coordCount |-> 90] >>

\* Literacy in tenths of a percent.
ScenarioLiteracy == <<650, 820, 910>>

ScenarioOrders ==
  { p \in [1..Len(ScenarioAreas) -> 1..Len(ScenarioAreas)] :
      \A i, j \in 1..Len(ScenarioAreas) : p[i] = p[j] => i = j }

ScenarioCatalogs ==
  { Filter([i \in 1..Len(ScenarioAreas) |-> ScenarioAreas[p[i]]]) :
      p \in ScenarioOrders }

ScenarioRepositories(key) ==
  LET ids == Range(AreaIds(ScenarioAreas))
      indexOf(id) == CHOOSE i \in 1..Len(ScenarioAreas) : ScenarioAreas[i].id = id
      zeroes == [literacy |-> 0, income |-> 0, population |-> 0]
  IN  { [ id \in ids |->
            [ k \in Range(demographicKeys) |->
                IF k = key
                THEN [ literacy |-> ScenarioLiteracy[q[indexOf(id)]],
                       income |-> 40000 + ScenarioLiteracy[q[indexOf(id)]],
                       population |-> 150000 ]
                ELSE zeroes ] ] : q \in ScenarioOrders }

InitScenario ==
  /\ rev \in Revisions
  /\ pc = "derive"
  /\ \E features \in ScenarioCatalogs : polygonData = Some([features |-> features])
  /\ error = null
  /\ selectedMetric = "literacy"
  /\ selectedGender \in GenderKey
  /\ selectedAge \in AgeKey
  /\ selectedCaste = "all"
  /\ selectedSEC = "all"
  /\ demographicKey = demographicKeyOf(selectedGender, selectedAge)
  /\ \E md \in ScenarioRepositories(demographicKey) : metricData = Some(md)
  /\ kpis = null
  /\ pieData = <<>>
  /\ barData = <<>>
  /\ geoJSON = null

SpecScenario == InitScenario /\ [][NextDerive]_vars

(***************************************************************************)
(* Helpers of the properties.                                              *)
(***************************************************************************)
\* The features of the catalog, and the value of feature j at the current
\* selection (undefined when the repository has none).
Features == polygonData[1].features

ValueOf(j) == Lookup(metricData[1], Features[j].id, demographicKey, selectedMetric)

Defined == {j \in 1..Len(Features) : ValueOf(j) # undefined}

RECURSIVE SumValues(_)
SumValues(entries) ==
  IF entries = <<>> THEN 0 ELSE Head(entries).value + SumValues(Tail(entries))

\* Some area of the repository has no vector at the current key.
SomeEntryMissing ==
  /\ metricData # null
  /\ \E id \in DOMAIN metricData[1] : demographicKey \notin DOMAIN metricData[1][id]

(***************************************************************************)
(* C1.  The demographic key incorporates all four dimensions: whenever a   *)
(* step changes the selection in at least one of gender, age band, social  *)
(* category and economic class, the key used for lookups changes too.      *)
(* The code composes the key from gender and age only.                     *)
(***************************************************************************)
C1_KeyIncorporatesAllDimensions ==
  [][ <<selectedGender, selectedAge, selectedCaste, selectedSEC>>'
        # <<selectedGender, selectedAge, selectedCaste, selectedSEC>>
      => demographicKey' # demographicKey ]_vars

(***************************************************************************)
(* C2.  After the load every area of metricData has a vector at the        *)
(* current demographic key, whatever selector changes were made.           *)
(***************************************************************************)
C2_EveryAreaHasEveryKey ==
  metricData # null =>
    \A id \in DOMAIN metricData[1] : demographicKey \in DOMAIN metricData[1][id]

(***************************************************************************)
(* C3.  Every input of the key resolver is in its closed enumeration in    *)
(* every reachable state, and the selected metric is one getColor knows,   *)
(* so that getColor never returns its fallback colour.                     *)
(***************************************************************************)
C3_InputsInEnumerations ==
  /\ selectedGender \in GenderKey
  /\ selectedAge \in AgeKey
  /\ selectedMetric \in Metrics
  /\ getColor(selectedMetric, 0) # "#E5E7EB"

(***************************************************************************)
(* C4.  Every bracket table starts at 0, is contiguous (each max is the    *)
(* next min) and ends unbounded (max = Infinity).                          *)
(***************************************************************************)
C4_BracketTablesCoverHalfLine ==
  \A m \in Metrics :
    LET table == brackets[m]
    IN  /\ table[1].min = 0
        /\ \A i \in 1..(Len(table) - 1) : table[i].max = table[i + 1].min
        /\ table[Len(table)].max = Infinity

C6_ColourMatchesBracket ==
  View = "dashboard" =>
    \A j \in Defined :
      LET i == FindBracket(brackets[selectedMetric], ValueOf(j)[1])
      IN  i # 0 /\ getColor(selectedMetric, ValueOf(j)[1]) = pieData[i].color

(***************************************************************************)
(* C7.  Brackets are half open, [lower, upper): the count of each pie      *)
(* entry is the number of areas whose value is at least the entry's lower  *)
(* bound and below the next entry's lower bound, so that a value equal to  *)
(* a boundary (income 30000, income 80000) is counted in the upper         *)
(* bracket and in no other.                                                *)
(***************************************************************************)
LowerBounds ==
  [ literacy |-> <<0, 700, 800, 900>>,
    income |-> <<0, 30000, 50000, 80000>>,
    population |-> <<0, 100000, 200000, 500000>> ]

C7_BoundaryInUpperBracket ==
  View = "dashboard" =>
    LET lower == LowerBounds[selectedMetric]
    IN  \A i \in 1..Len(pieData) :
          pieData[i].value =
            Cardinality({ j \in Defined :
                            /\ lower[i] <= ValueOf(j)[1]
                            /\ (i < Len(lower) => ValueOf(j)[1] < lower[i + 1]) })

\* The dashboard shows income, one area has income 30000 and another 80000,
\* and they are counted in the second and in the last bracket.
C7_Witness ==
  /\ View = "dashboard"
  /\ selectedMetric = "income"
  /\ \E j, k \in Defined : ValueOf(j)[1] = 30000 /\ ValueOf(k)[1] = 80000
  /\ pieData[2].value = 1
  /\ pieData[4].value = 1

(***************************************************************************)
(* C8.  When an area has no vector at the active key, kpis takes its value *)
(* as 0 and still returns average, min and max: the computation is not     *)
(* aborted.                                                                *)
(***************************************************************************)
C8_MissingEntryCountsAsZero ==
  SomeEntryMissing =>
    /\ pc # "crashed"
    /\ kpis # null
    /\ kpis[1].min = 0

(***************************************************************************)
(* C9.  When the load completed with no area, kpis does not return an      *)
(* average of NaN, a min of Infinity or a max of -Infinity.                *)
(***************************************************************************)
C9_EmptyInputSignalled ==
  (metricData # null /\ DOMAIN metricData[1] = {}) =>
    \/ kpis = null
    \/ /\ kpis[1].average # NaN
       /\ kpis[1].min # Infinity
       /\ kpis[1].max # 0 - Infinity

DisplayName(j) ==
  IF Features[j].name = "" THEN "Unknown Area" ELSE Features[j].name

C11_RankIsPermutationOfDefined ==
  barData # <<>> =>
    /\ Len(barData) = Cardinality(Defined)
    /\ \A p \in 1..Len(barData) :
         Cardinality({q \in 1..Len(barData) : barData[q] = barData[p]})
           = Cardinality({ j \in Defined :
                             /\ DisplayName(j) = barData[p].name
                             /\ ValueOf(j)[1] = barData[p].value })

\* The catalog has an area with a value and an area without one, and the
\* ranking has been built.
C11_Witness ==
  /\ barData # <<>>
  /\ Defined # {}
  /\ \E j \in 1..Len(Features) : j \notin Defined

(***************************************************************************)
(* C12.  barData is sorted by value, descending, and the sort is stable:   *)
(* of two consecutive entries the first has a value at least the second's, *)
(* and entries of equal value are in the order of their features in the    *)
(* catalog.  (Array.prototype.sort is stable from ES2019 on.)              *)
(***************************************************************************)
\* The position in the catalog of the feature shown under a display name;
\* the features of a catalog have distinct names.
PositionOf(name) == CHOOSE j \in 1..Len(Features) : DisplayName(j) = name

C12_RankSortedDescendingStable ==
  View = "dashboard" =>
    \A p \in 1..(Len(barData) - 1) :
      /\ barData[p].value >= barData[p + 1].value
      /\ barData[p].value = barData[p + 1].value
           => PositionOf(barData[p].name) < PositionOf(barData[p + 1].name)

\* Two features share an id and so a value, Haridwar is first in the
\* catalog, and Haridwar is first in the ranking.
C12_Witness ==
  /\ View = "dashboard"
  /\ Len(barData) = 2
  /\ barData[1].value = barData[2].value
  /\ barData[1].name = "Haridwar"
  /\ PositionOf("Haridwar") = 1

(***************************************************************************)
(* C13.  kpis.average is the arithmetic mean of the values rounded to two  *)
(* decimal digits; for population the rounded mean is floored as well, so  *)
(* that the population average is an integer.  kpis.average is held in     *)
(* hundredths: a hundredth h is a rounding of the mean sum / n when        *)
(* |h * n - 100 * sum| <= n / 2.                                           *)
(***************************************************************************)
\* The values kpis averages, one per area of metricData, times their scale
\* (in hundredths), summed.
SumOfValuesInHundredths ==
  LET md == metricData[1]
  IN  AverageScale(selectedMetric)
        * SumOver([id \in DOMAIN md |-> md[id][demographicKey][selectedMetric]],
                  DOMAIN md)

IsRoundedMean(h) ==
  LET n == Cardinality(DOMAIN metricData[1])
      d == h * n - SumOfValuesInHundredths
  IN  2 * (IF d < 0 THEN 0 - d ELSE d) <= n

NotReady == polygonData = null \/ metricData = null

C14_NotReadyUntilBothLoaded ==
  /\ [](NotReady =>
          /\ kpis = null
          /\ pieData = <<>>
          /\ barData = <<>>
          /\ geoJSON = null
          /\ View # "dashboard"
          /\ (error = null => View = "loading"))
  /\ [][NotReady => UNCHANGED <<selectedMetric, selectedGender, selectedAge,
                                selectedCaste, selectedSEC>>]_vars

\* The catalog is set and the repository is not yet: the loading view is
\* still shown.
C14_Witness ==
  /\ polygonData # null
  /\ metricData = null
  /\ View = "loading"
  /\ kpis = null

(***************************************************************************)
(* C15.  A failed load ends in the error view for good: once error is set  *)
(* the error view is shown, no step clears or changes error, and the load  *)
(* is not started again (the effect runs once: the component never returns *)
(* to fetching, and polygonData and metricData stay as they are).          *)
(***************************************************************************)
C15_ErrorIsTerminal ==
  /\ [](error # null => (View = "error" /\ pc = "settled"))
  /\ [][error # null =>
          /\ error' = error
          /\ pc' # "fetching"
          /\ UNCHANGED <<polygonData, metricData>>]_vars

\* The fetch was rejected and the error view is shown.
C15_Witness ==
  /\ error = Some("Failed to fetch GeoJSON")
  /\ View = "error"
  /\ polygonData = null
  /\ metricData = null

(***************************************************************************)
(* C16.  polygonData and metricData are set once, by the load, and are     *)
(* read-only afterwards: a step that changes a selection (metric, gender,  *)
(* age, caste, SEC) leaves both unchanged, and no step changes either once *)
(* it is set.                                                              *)
(***************************************************************************)
C16_DataReadOnlyAfterLoad ==
  [][ /\ <<selectedMetric, selectedGender, selectedAge, selectedCaste,
           selectedSEC>>'
           # <<selectedMetric, selectedGender, selectedAge, selectedCaste,
               selectedSEC>>
         => UNCHANGED <<polygonData, metricData>>
      /\ polygonData # null => polygonData' = polygonData
      /\ metricData # null => metricData' = metricData ]_vars

\* Both are loaded and the metric, the gender and the age have been
\* changed from their initial values.
C16_Witness ==
  /\ polygonData # null
  /\ metricData # null
  /\ DOMAIN metricData[1] # {}
  /\ selectedMetric = "income"
  /\ selectedGender = "female"
  /\ selectedAge = "age19_35"

(***************************************************************************)
(* C17.  What the dashboard shows is never stale: in every state where the *)
(* dashboard is shown, kpis, pieData, barData and the fill colours of the  *)
(* mounted map equal what their callbacks give when run afresh on the      *)
(* current selectedMetric, demographicKey, polygonData and metricData.     *)
(***************************************************************************)
C17_DerivedOutputsAreFresh ==
  View = "dashboard" =>
    /\ ~kpisThrows(metricData[1], selectedMetric, demographicKey)
    /\ kpis = Some(kpisOf(metricData[1], selectedMetric, demographicKey))
    /\ pieData = pieDataOf(Features, metricData[1], selectedMetric,
                           demographicKey)
    /\ barData = barDataOf(Features, metricData[1], selectedMetric,
                           demographicKey)
    /\ geoJSON = Some(geoJSONOf(Features, metricData[1], selectedMetric,
                                demographicKey))

\* The dashboard after the metric, the gender and the age were changed, with
\* two areas on the map.
C17_Witness ==
  /\ View = "dashboard"
  /\ selectedMetric = "population"
  /\ demographicKey = "male_age36_50"
  /\ Len(Features) = 2
  /\ geoJSON[1].key = "population-male_age36_50"
  /\ Len(barData) = 2

(***************************************************************************)
(* C18.  The key that addresses metricData is a function of the dimension  *)
(* selections alone: in every reachable state, whatever selection changes  *)
(* led to it, demographicKey is the key composed from the current          *)
(* selections, so two states with the same selections have the same key.   *)
(***************************************************************************)
C18_KeyIsFunctionOfSelections ==
  demographicKey = demographicKeyOf(selectedGender, selectedAge)

\* All four selections have been changed, one after the other, and the key
\* is the one of the current gender and age.
C18_Witness ==
  /\ selectedGender = "other"
  /\ selectedAge = "age51_plus"
  /\ selectedCaste = "sc"
  /\ selectedSEC = "bpl"
  /\ demographicKey = "other_age51_plus"

(***************************************************************************)
(* C19.  The generation of metricData is deterministic: two loads of the   *)
(* same ordered list of areas give the same vectors for every area and     *)
(* every key.  One load of every list draws the stream 0 of Math.random,   *)
(* so the generation is deterministic exactly when every load gives what   *)
(* that load gives.                                                        *)
(***************************************************************************)
C19_GenerationIsDeterministic ==
  (polygonData # null /\ metricData # null) =>
    metricData[1] = GenerateMetricData(AreaIds(Features), 0)

(***************************************************************************)
(* C20.  For three areas with literacy 65, 82 and 91 at the active key:    *)
(* kpis is average 79.33, min 65, max 91; the pie counts are 1 (<70%),     *)
(* 0 (70-80%), 1 (80-90%) and 1 (>=90%); and barData lists the values in   *)
(* the order 91, 82, 65.  Literacy is held in tenths and the average in    *)
(* hundredths.                                                             *)
(***************************************************************************)
C20_ThreeAreaScenario ==
  /\ kpis # null => kpis[1] = [average |-> 7933, min |-> 650, max |-> 910]
  /\ pieData # <<>> =>
       [i \in 1..Len(pieData) |-> pieData[i].value] = <<1, 0, 1, 1>>
  /\ barData # <<>> =>
       [p \in 1..Len(barData) |-> barData[p].value] = <<910, 820, 650>>

\* All three have been derived, from a catalog whose first area is the one
\* with literacy 65 and is ranked last.
C20_Witness ==
  /\ kpis # null
  /\ pieData # <<>>
  /\ barData # <<>>
  /\ ValueOf(1) = Some(650)
  /\ barData[3].name = DisplayName(1)

(***************************************************************************)
(* C21.  pieData has exactly one entry per bracket of the selected         *)
(* metric's table, in the order of the table, which ascends by range; a    *)
(* bracket that counted no area keeps its entry, and the order does not    *)
(* depend on the counts.                                                   *)
(***************************************************************************)
C21_OneEntryPerBracketInTableOrder ==
  View = "dashboard" =>
    LET table == brackets[selectedMetric]
    IN  /\ Len(pieData) = Len(table)
        /\ \A i \in 1..Len(table) :
             /\ pieData[i].name = table[i].label
             /\ pieData[i].color = table[i].color
        /\ \A i \in 1..(Len(table) - 1) : table[i].min < table[i + 1].min

\* The counts are neither ascending nor descending and two brackets are
\* empty: 0, at least 1, 0.
C21_Witness ==
  /\ View = "dashboard"
  /\ Len(pieData) = 4
  /\ pieData[1].value = 0
  /\ pieData[2].value >= 1
  /\ pieData[3].value = 0

(***************************************************************************)
(* C22.  Every vector of metricData is in the domain of the data model     *)
(* (literacy from 0 to 100, income and population not negative) and in the *)
(* ranges of the generator (literacy 60 to 95, income 20000 to 100000,     *)
(* population 5000 to 1000000), and therefore each of its values falls in  *)
(* some bracket of its metric's table.  Literacy is held in tenths.        *)
(***************************************************************************)
C22_GeneratedVectorsInDomain ==
  metricData # null =>
    \A id \in DOMAIN metricData[1] :
      \A key \in DOMAIN metricData[1][id] :
        LET v == metricData[1][id][key]
        IN  /\ v.literacy \in 0..1000
            /\ v.income >= 0
            /\ v.population >= 0
            /\ v.literacy \in 600..950
            /\ v.income \in 20000..100000
            /\ v.population \in 5000..1000000
            /\ \A m \in Metrics : FindBracket(brackets[m], v[m]) # 0

\* The generator has drawn both ends of the literacy range, the lowest
\* income and the lowest population.
C22_Witness ==
  /\ metricData # null
  /\ \E id \in DOMAIN metricData[1] :
       LET table == metricData[1][id]
       IN  /\ \E key \in DOMAIN table : table[key].literacy = 950
           /\ \E key \in DOMAIN table : table[key].literacy = 600
           /\ \E key \in DOMAIN table : table[key].income = 20000
           /\ \E key \in DOMAIN table : table[key].population = 5000

(***************************************************************************)
(* C23.  The error state and the ready state exclude each other: error and *)
(* metricData are never both set, and when error is set the error view is  *)
(* what is shown, not the loading view and not the dashboard.              *)
(***************************************************************************)
C23_ErrorExcludesReady ==
  /\ ~(error # null /\ metricData # null)
  /\ error # null => View = "error"
  /\ View = "dashboard" => error = null

\* The body was not JSON: error is set, nothing was loaded, and the error
\* view has replaced the loading view.
C23_Witness ==
  /\ error = Some("Unexpected end of JSON input")
  /\ metricData = null
  /\ View = "error"
  /\ geoJSON = null

(***************************************************************************)
(* C24.  kpis, pieData and barData range over the same areas: whenever the *)
(* dashboard is shown, the number of values kpis aggregates (one per key   *)
(* of metricData) is the number of features of the catalog, the bracket    *)
(* counts of pieData sum to it and barData has that many entries, also     *)
(* when two features share an id.                                          *)
(***************************************************************************)
C24_ViewsRangeOverSameAreas ==
  View = "dashboard" =>
    LET aggregated == Cardinality(DOMAIN metricData[1])
    IN  /\ aggregated = Len(Features)
        /\ SumValues(pieData) = aggregated
        /\ Len(barData) = aggregated

(***************************************************************************)
(* C25.  Whenever kpis is computed over at least one area, min <= average  *)
(* <= max, for every metric, after the rounding of the mean to two         *)
(* decimals and the floor of the population average.  The average is held  *)
(* in hundredths, min and max in the unit of the values.                   *)
(***************************************************************************)
C25_AverageBetweenMinAndMax ==
  (View = "dashboard" /\ DOMAIN metricData[1] # {}) =>
    /\ kpis[1].min * AverageScale(selectedMetric) <= kpis[1].average
    /\ kpis[1].average <= kpis[1].max * AverageScale(selectedMetric)
    /\ kpis[1].min <= kpis[1].max

\* Population over two areas: the mean is not an integer, was floored, and
\* lies strictly between min and max.
C25_Witness ==
  /\ View = "dashboard"
  /\ selectedMetric = "population"
  /\ Cardinality(DOMAIN metricData[1]) = 2
  /\ SumOfValuesInHundredths % 200 # 0
  /\ kpis[1].min * 100 < kpis[1].average
  /\ kpis[1].average < kpis[1].max * 100

(***************************************************************************)
(* C26.  The map and the charts treat an area alike: an area that the      *)
(* style callback fills with the colour of a bracket, be it through the    *)
(* value 0 that the callback takes for a missing value, is counted by      *)
(* pieData in that bracket and has an entry in barData.                    *)
(***************************************************************************)
\* The colour the style callback gives feature j in the current state.
FillColorOf(j) ==
  styleFillColor(Features[j], metricData[1], selectedMetric, demographicKey)

\* The features pieData counts in bracket i.
CountedIn(i) ==
  { j \in Defined : FindBracket(brackets[selectedMetric], ValueOf(j)[1]) = i }

====
